---- MODULE Spec2Model ----
(***************************************************************************)
(* CircularBuffer<T> of src/lib.rs: a boxed slice of Option<T> slots with  *)
(* a start (read) index and an end (write) index.  Slots are indexed from  *)
(* 0 as in the source.  Each method is an operator from a buffer record to *)
(* the buffer it leaves and the value it returns; each action applies one  *)
(* method to the current buffer.                                           *)
(***************************************************************************)
EXTENDS Integers, Sequences, FiniteSets

VARIABLES
    data, size, start, end,   \* the fields of CircularBuffer<T>
    op, arg, res, val,        \* the last call: method, argument, result kind, value returned
    pre,                      \* the buffer as it was when the last call was made
    queue, preq,              \* elements inserted and not yet removed, oldest first; its value before the last call
    onlyWrites, onlyWR,       \* every call so far was a write; every call so far was a write or a read
    writes, nread             \* while onlyWR: elements stored by successful writes, number of successful reads

vars == <<data, size, start, end, op, arg, res, val, pre, queue, preq, onlyWrites, onlyWR, writes, nread>>

\* ---- bounds ----
MaxCap == 4
MaxElem == 2
MaxLog == 5

Capacities == 1..MaxCap
Elems == 1..MaxElem

\* ---- Option<T> ----
None == 0
Some(e) == e
is_some(o) == o # None
is_none(o) == o = None

\* ---- the struct ----
Buf == [data |-> data, size |-> size, start |-> start, end |-> end]

\* slice indexing panics when the index is out of bounds
InBounds(b, i) == i \in DOMAIN b.data

new(capacity) ==
    [data |-> [i \in 0..(capacity - 1) |-> None],
     size |-> capacity,
     start |-> 0,
     end |-> 0]

\* number of occupied slots
Count(b) == Cardinality({i \in DOMAIN b.data : is_some(b.data[i])})

\* write whose full test leaves out the occupancy of the slot at start
write_noSomeCheck(b, element) ==
    IF b.start = b.end
    THEN [buf |-> b, res |-> "FullBuffer"]
    ELSE [buf |-> [b EXCEPT !.data[b.end] = Some(element),
                            !.end = (b.end + 1) % b.size],
          res |-> "Ok"]

\* write that stores the element before it tests for a full buffer
write_storeFirst(b, element) ==
    IF b.start = b.end /\ is_some(b.data[b.start])
    THEN [buf |-> [b EXCEPT !.data[b.end] = Some(element)], res |-> "FullBuffer"]
    ELSE [buf |-> [b EXCEPT !.data[b.end] = Some(element),
                            !.end = (b.end + 1) % b.size],
          res |-> "Ok"]

\* write that stores into the slot at start instead of the slot at end
write_atStart(b, element) ==
    IF b.start = b.end /\ is_some(b.data[b.start])
    THEN [buf |-> b, res |-> "FullBuffer"]
    ELSE [buf |-> [b EXCEPT !.data[b.start] = Some(element),
                            !.end = (b.end + 1) % b.size],
          res |-> "Ok"]

write(b, element) ==
    IF b.start = b.end /\ ~InBounds(b, b.start)
    THEN [buf |-> b, res |-> "Panic"]
    ELSE IF b.start = b.end /\ is_some(b.data[b.start])
    THEN [buf |-> b, res |-> "FullBuffer"]
    ELSE IF ~InBounds(b, b.end) \/ b.size = 0
    THEN [buf |-> b, res |-> "Panic"]
    ELSE [buf |-> [b EXCEPT !.data[b.end] = Some(element),
                            !.end = (b.end + 1) % b.size],
          res |-> "Ok"]

\* read that takes the element and leaves start where it was
read_noAdvance(b) ==
    IF is_none(b.data[b.start])
    THEN [buf |-> b, res |-> "EmptyBuffer", val |-> None]
    ELSE [buf |-> [b EXCEPT !.data[b.start] = None],
          res |-> "Ok", val |-> b.data[b.start]]

\* read that tests the slot at end instead of the slot at start
read_checksEnd(b) ==
    IF is_none(b.data[b.end])
    THEN [buf |-> b, res |-> "EmptyBuffer", val |-> None]
    ELSE [buf |-> [b EXCEPT !.data[b.start] = None,
                            !.start = (b.start + 1) % b.size],
          res |-> "Ok", val |-> b.data[b.start]]

\* read that advances start also when the buffer is empty
read_emptyAdvance(b) ==
    IF is_none(b.data[b.start])
    THEN [buf |-> [b EXCEPT !.start = (b.start + 1) % b.size],
          res |-> "EmptyBuffer", val |-> None]
    ELSE [buf |-> [b EXCEPT !.data[b.start] = None,
                            !.start = (b.start + 1) % b.size],
          res |-> "Ok", val |-> b.data[b.start]]

read(b) ==
    IF ~InBounds(b, b.start)
    THEN [buf |-> b, res |-> "Panic", val |-> None]
    ELSE IF is_none(b.data[b.start])
    THEN [buf |-> b, res |-> "EmptyBuffer", val |-> None]
    ELSE IF is_some(b.data[b.start])
    THEN [buf |-> [b EXCEPT !.data[b.start] = None,
                            !.start = (b.start + 1) % b.size],
          res |-> "Ok", val |-> b.data[b.start]]
    ELSE [buf |-> [b EXCEPT !.start = b.start + 1],
          res |-> "EmptyBuffer", val |-> None]

\* clear that reads once instead of looping
clear_once(b) ==
    [buf |-> read(b).buf, res |-> "Unit"]

\* clear that drops the slots and rewinds both cursors to 0
clear_rewind(b) ==
    [buf |-> new(b.size), res |-> "Unit"]

RECURSIVE clear(_)
clear(b) ==
    LET r == read(b)
    IN  IF r.res = "Ok" THEN clear(r.buf)
        ELSE [buf |-> r.buf, res |-> IF r.res = "Panic" THEN "Panic" ELSE "Unit"]

\* the results of the read calls that the loop of clear makes, in order
RECURSIVE clear_trace(_)
clear_trace(b) ==
    LET r == read(b)
    IN  IF r.res = "Ok" THEN <<"Ok">> \o clear_trace(r.buf)
        ELSE <<r.res>>

\* overwrite that replaces the oldest element in place without advancing
overwrite_noAdvance(b, element) ==
    IF b.start = b.end /\ is_some(b.data[b.start])
    THEN [buf |-> [b EXCEPT !.data[b.end] = Some(element)], res |-> "Unit"]
    ELSE [buf |-> write(b, element).buf, res |-> "Unit"]

\* overwrite whose full test leaves out the occupancy of the slot at start
overwrite_noSomeCheck(b, element) ==
    IF b.start = b.end
    THEN [buf |-> [b EXCEPT !.data[b.end] = Some(element),
                            !.start = (b.start + 1) % b.size,
                            !.end = (b.start + 1) % b.size],
          res |-> "Unit"]
    ELSE [buf |-> write(b, element).buf, res |-> "Unit"]

\* overwrite that advances the cursors first and stores at the new end
overwrite_storeLast(b, element) ==
    IF b.start = b.end /\ is_some(b.data[b.start])
    THEN [buf |-> [b EXCEPT !.data[(b.start + 1) % b.size] = Some(element),
                            !.start = (b.start + 1) % b.size,
                            !.end = (b.start + 1) % b.size],
          res |-> "Unit"]
    ELSE [buf |-> write(b, element).buf, res |-> "Unit"]

\* overwrite that moves the cursors two slots on when the buffer is full
overwrite_skipTwo(b, element) ==
    IF b.start = b.end /\ is_some(b.data[b.start])
    THEN [buf |-> [b EXCEPT !.data[b.end] = Some(element),
                            !.start = (b.start + 2) % b.size,
                            !.end = (b.start + 2) % b.size],
          res |-> "Unit"]
    ELSE [buf |-> write(b, element).buf, res |-> "Unit"]

overwrite(b, element) ==
    IF b.start = b.end /\ ~InBounds(b, b.start)
    THEN [buf |-> b, res |-> "Panic"]
    ELSE IF b.start = b.end /\ is_some(b.data[b.start])
    THEN [buf |-> [b EXCEPT !.data[b.end] = Some(element),
                            !.start = (b.start + 1) % b.size,
                            !.end = (b.start + 1) % b.size],
          res |-> "Unit"]
    ELSE LET w == write(b, element)
         IN  [buf |-> w.buf, res |-> IF w.res = "Panic" THEN "Panic" ELSE "Unit"]

\* ---- state machine ----
Install(b) ==
    /\ data' = b.data
    /\ size' = b.size
    /\ start' = b.start
    /\ end' = b.end

Init ==
    /\ \E capacity \in Capacities :
          /\ data = new(capacity).data
          /\ size = new(capacity).size
          /\ start = new(capacity).start
          /\ end = new(capacity).end
    /\ op = "new"
    /\ arg = None
    /\ res = "Unit"
    /\ val = None
    /\ pre = new(0)          \* no call has been made yet
    /\ queue = << >>
    /\ preq = << >>
    /\ writes = << >>
    /\ nread = 0
    /\ onlyWrites = TRUE
    /\ onlyWR = TRUE

Write ==
    \E element \in Elems :
        LET r == write(Buf, element)
        IN  /\ res # "Panic"
            /\ ~onlyWR \/ Len(writes) < MaxLog \/ r.res # "Ok"
            /\ Install(r.buf)
            /\ op' = "write"
            /\ arg' = element
            /\ res' = r.res
            /\ val' = None
            /\ pre' = Buf
            /\ preq' = queue
            /\ queue' = IF r.res = "Ok" THEN Append(queue, element) ELSE queue
            /\ writes' = IF onlyWR /\ r.res = "Ok" THEN Append(writes, element) ELSE writes
            /\ UNCHANGED <<onlyWrites, onlyWR, nread>>

Read ==
    LET r == read(Buf)
    IN  /\ res # "Panic"
        /\ ~onlyWR \/ nread < MaxLog \/ r.res # "Ok"
        /\ Install(r.buf)
        /\ op' = "read"
        /\ arg' = None
        /\ res' = r.res
        /\ val' = r.val
        /\ pre' = Buf
        /\ preq' = queue
        /\ queue' = IF r.res = "Ok" /\ queue # << >> THEN Tail(queue) ELSE queue
        /\ nread' = IF onlyWR /\ r.res = "Ok" THEN nread + 1 ELSE nread
        /\ onlyWrites' = FALSE
        /\ UNCHANGED <<onlyWR, writes>>

Clear ==
    LET r == clear(Buf)
    IN  /\ res # "Panic"
        /\ Install(r.buf)
        /\ op' = "clear"
        /\ arg' = None
        /\ res' = r.res
        /\ val' = None
        /\ pre' = Buf
        /\ preq' = queue
        /\ queue' = << >>
        /\ onlyWrites' = FALSE
        /\ onlyWR' = FALSE
        /\ writes' = << >>
        /\ nread' = 0

Overwrite ==
    \E element \in Elems :
        LET r == overwrite(Buf, element)
        IN  /\ res # "Panic"
            /\ Install(r.buf)
            /\ op' = "overwrite"
            /\ arg' = element
            /\ res' = r.res
            /\ val' = None
            /\ pre' = Buf
            /\ preq' = queue
            /\ queue' = IF r.res = "Panic" THEN queue
                         ELSE IF Len(queue) = size /\ queue # << >>
                         THEN Append(Tail(queue), element)
                         ELSE Append(queue, element)
            /\ onlyWrites' = FALSE
            /\ onlyWR' = FALSE
            /\ writes' = << >>
            /\ nread' = 0

Next == Write \/ Read \/ Clear \/ Overwrite

Spec == Init /\ [][Next]_vars

\* every capacity new accepts, 0 included; a call that panics aborts the
\* program, so no call follows it
CapacitiesAny == 0..MaxCap

InitAny ==
    /\ \E capacity \in CapacitiesAny :
          /\ data = new(capacity).data
          /\ size = new(capacity).size
          /\ start = new(capacity).start
          /\ end = new(capacity).end
    /\ op = "new"
    /\ arg = None
    /\ res = "Unit"
    /\ val = None
    /\ pre = new(0)
    /\ queue = << >>
    /\ preq = << >>
    /\ writes = << >>
    /\ nread = 0
    /\ onlyWrites = TRUE
    /\ onlyWR = TRUE

SpecAny == InitAny /\ [][Next]_vars

TypeOK ==
    /\ size \in Capacities
    /\ DOMAIN data = 0..(size - 1)
    /\ \A i \in DOMAIN data : data[i] \in Elems \cup {None}
    /\ start \in 0..(size - 1)
    /\ end \in 0..(size - 1)
\* ---- helpers of the properties ----
IsFull(b) == Count(b) = b.size
IsEmpty(b) == Count(b) = 0

\* the results of n consecutive read calls on b, and the buffer they leave
RECURSIVE ReadN(_, _)
ReadN(b, n) ==
    IF n = 0 THEN << >>
    ELSE LET r == read(b)
         IN  <<[res |-> r.res, val |-> r.val]>> \o ReadN(r.buf, n - 1)

OkOf(e) == [res |-> "Ok", val |-> e]

\* ---- C1 ----
\* C1: while only write and read have been called on a buffer of capacity
\* N >= 1, the k-th successful read returns the element stored by the k-th
\* successful write (so k never exceeds the number of successful writes).
C1_ReadsInWriteOrder ==
    (onlyWR /\ op = "read" /\ res = "Ok") =>
        /\ nread \in 1..Len(writes)
        /\ val = writes[nread]

\* a third successful read, on a buffer of capacity 2 whose cursors have
\* wrapped, of writes that differ
C1_Witness ==
    /\ onlyWR /\ op = "read" /\ res = "Ok"
    /\ size = 2 /\ nread = 3
    /\ writes[2] # writes[3]

\* ---- C2 ----
\* C2: write returns Err(FullBuffer) exactly when every slot is occupied
\* before the call and Ok(()) otherwise; while every call so far was a write,
\* the writes succeed up to the N-th and fail from the (N+1)-th on.
C2_WriteFullIffAllOccupied ==
    (op = "write") =>
        /\ res \in {"Ok", "FullBuffer"}
        /\ (res = "FullBuffer") <=> IsFull(pre)
        /\ (res = "Ok") <=> ~IsFull(pre)
        /\ onlyWrites => IF Len(preq) < size
                         THEN res = "Ok" /\ Len(writes) = Len(preq) + 1
                         ELSE res = "FullBuffer" /\ Len(writes) = size

\* the (N+1)-th write on a fresh buffer of capacity 3 has failed
C2_Witness ==
    /\ op = "write" /\ res = "FullBuffer"
    /\ onlyWrites /\ size = 3 /\ Len(writes) = 3

\* ---- C3 ----
\* C3: read returns Err(EmptyBuffer) exactly when no slot is occupied before
\* the call and Ok of an element otherwise; the read of a buffer as new left
\* it fails with EmptyBuffer.
C3_ReadEmptyIffNoneOccupied ==
    (op = "read") =>
        /\ res \in {"Ok", "EmptyBuffer"}
        /\ (res = "EmptyBuffer") <=> IsEmpty(pre)
        /\ (res = "Ok") <=> (~IsEmpty(pre) /\ val \in Elems)
        /\ (pre = new(size)) => res = "EmptyBuffer"

\* a read has succeeded on a buffer that was neither empty nor full, with
\* the write cursor on an empty slot
C3_Witness ==
    /\ op = "read" /\ res = "Ok"
    /\ ~IsEmpty(pre) /\ ~IsFull(pre)
    /\ pre.start # pre.end

\* ---- C4 ----
\* C4: after overwrite(x) on a full buffer that held e1 (oldest) .. eN
\* (newest), N reads return e2, .., eN, x in that order, the (N+1)-th read
\* returns Err(EmptyBuffer), and the slot that held e1 holds x.
C4_OverwriteEvictsOldest ==
    (op = "overwrite" /\ IsFull(pre)) =>
        LET rs == ReadN(Buf, size + 1)
        IN  /\ Len(preq) = size
            /\ \A i \in 1..(size - 1) : rs[i] = OkOf(preq[i + 1])
            /\ rs[size] = OkOf(arg)
            /\ rs[size + 1].res = "EmptyBuffer"
            /\ data[pre.start] = arg

\* overwrite on a full buffer of capacity 3 whose oldest element is not in
\* slot 0 and differs from both its successor and the new element
C4_Witness ==
    /\ op = "overwrite" /\ IsFull(pre)
    /\ size = 3 /\ pre.start = 1
    /\ preq[1] # preq[2] /\ preq[1] # arg

\* ---- C5 ----
\* C5: a write that returns Err(FullBuffer) leaves every slot, start, end
\* and size as they were before the call.
C5_FailedWriteChangesNothing ==
    (op = "write" /\ res = "FullBuffer") => Buf = pre

\* a write has failed on a full buffer holding an element other than the one
\* offered at the write cursor
C5_Witness ==
    /\ op = "write" /\ res = "FullBuffer"
    /\ IsFull(pre) /\ pre.data[pre.end] # arg

\* ---- C6 ----
\* C6: a read that returns Err(EmptyBuffer) leaves every slot, start, end
\* and size as they were before the call.
C6_FailedReadChangesNothing ==
    (op = "read" /\ res = "EmptyBuffer") => Buf = pre

\* a read has failed on an empty buffer whose cursors have moved off slot 0
C6_Witness ==
    /\ op = "read" /\ res = "EmptyBuffer"
    /\ IsEmpty(pre) /\ pre.start = 1 /\ size = 3

\* ---- C7 ----
\* C7: overwrite(x) on a buffer that is not full leaves exactly the buffer
\* that a successful write(x) leaves from the same state.
C7_OverwriteIsWriteWhenNotFull ==
    (op = "overwrite" /\ ~IsFull(pre)) =>
        /\ write(pre, arg).res = "Ok"
        /\ Buf = write(pre, arg).buf

\* overwrite on an empty buffer, where the cursors coincide as they do on a
\* full one
C7_Witness ==
    /\ op = "overwrite" /\ IsEmpty(pre)
    /\ pre.start = pre.end /\ pre.start = 1

\* ---- C8 ----
\* C8: overwrite(x) on a full buffer leaves exactly the buffer that read()
\* followed by write(x) leaves from the same state.
C8_OverwriteIsReadThenWriteWhenFull ==
    (op = "overwrite" /\ IsFull(pre)) =>
        /\ read(pre).res = "Ok"
        /\ write(read(pre).buf, arg).res = "Ok"
        /\ Buf = write(read(pre).buf, arg).buf

\* overwrite on a full buffer of capacity 2 with an element other than the
\* second oldest
C8_Witness ==
    /\ op = "overwrite" /\ IsFull(pre)
    /\ size = 2 /\ preq[2] # arg

\* ---- C9 ----
\* C9: after clear() every slot is empty, the next read returns
\* Err(EmptyBuffer), start equals end, and end is what it was before the call.
C9_ClearEmpties ==
    (op = "clear") =>
        /\ \A i \in DOMAIN data : is_none(data[i])
        /\ IsEmpty(Buf)
        /\ read(Buf).res = "EmptyBuffer"
        /\ start = end
        /\ end = pre.end

\* clear of a buffer holding two elements whose write cursor is off slot 0
C9_Witness ==
    /\ op = "clear"
    /\ Count(pre) = 2 /\ pre.end = 2

\* ---- C10 ----
\* C10: clear() of an empty buffer changes no slot and no cursor, and a
\* second clear() leaves the buffer the first clear() left.
C10_ClearIdempotent ==
    (op = "clear") =>
        /\ IsEmpty(pre) => Buf = pre
        /\ clear(Buf).buf = Buf

\* clear of a buffer that an earlier clear left empty with its cursors off
\* slot 0
C10_Witness ==
    /\ op = "clear"
    /\ IsEmpty(pre) /\ pre.start = 1
\* ---- C11 ----
\* C11: on a buffer made by new(0), every write returns Err(FullBuffer) and
\* stores nothing, and every read returns Err(EmptyBuffer); neither aborts.
C11_ZeroCapacityFailsCleanly ==
    (size = 0) =>
        /\ (op = "write") => (res = "FullBuffer" /\ Buf = pre)
        /\ (op = "read") => (res = "EmptyBuffer" /\ Buf = pre)
        /\ res # "Panic"
\* ---- C12 ----
Min(a, b) == IF a <= b THEN a ELSE b

\* C12: overwrite(x) completes without an error or an abort on a buffer of
\* any capacity, 0 included; for capacity N >= 1 the count afterwards is
\* min(count + 1, N) and x is the newest element, in the slot just before end.
C12_OverwriteNeverFails ==
    (op = "overwrite") =>
        /\ res = "Unit"
        /\ (size >= 1) =>
              /\ Count(Buf) = Min(Count(pre) + 1, size)
              /\ data[(end + size - 1) % size] = arg
              /\ queue # << >> /\ queue[Len(queue)] = arg
\* ---- C13 ----
\* the slot that is i - 1 places after start, circularly
SlotAt(b, i) == (b.start + i - 1) % b.size

\* C13: the occupied slots are the Count consecutive positions start,
\* start + 1, .. (mod N), which end just before end; every other slot is
\* empty; and their contents in that order are the abstract queue (append on
\* a successful write, drop the head on a successful read, drop the head
\* then append on overwrite when full, empty on clear).
C13_RefinesFifoQueue ==
    /\ Len(queue) = Count(Buf)
    /\ Len(queue) <= size
    /\ \A i \in 1..Len(queue) : data[SlotAt(Buf, i)] = Some(queue[i])
    /\ \A j \in DOMAIN data :
          is_some(data[j]) <=> \E i \in 1..Len(queue) : j = SlotAt(Buf, i)
    /\ end = (start + Len(queue)) % size

\* overwrite has acted on a full buffer of capacity 3 and left the oldest
\* element in the last slot, with the newest differing from it
C13_Witness ==
    /\ op = "overwrite" /\ IsFull(pre)
    /\ size = 3 /\ start = 2 /\ end = 2
    /\ queue[1] # queue[3]
\* ---- C14 ----
\* the only step a cursor takes
Advance(i, n) == (i + 1) % n

\* C14: the number of occupied slots is in 0..N, start and end are in
\* 0..N-1, the size field and the number of slots stay N, and a call leaves
\* each cursor where it was or one Advance further (clear: start is Count
\* Advances further, end is where it was).
C14_CursorsAndCountInRange ==
    /\ size \in Capacities
    /\ DOMAIN data = 0..(size - 1)
    /\ Count(Buf) \in 0..size
    /\ start \in 0..(size - 1)
    /\ end \in 0..(size - 1)
    /\ (op # "new") =>
          /\ size = pre.size
          /\ DOMAIN data = DOMAIN pre.data
    /\ (op \in {"write", "read", "overwrite"}) =>
          /\ start \in {pre.start, Advance(pre.start, size)}
          /\ end \in {pre.end, Advance(pre.end, size)}
    /\ (op = "clear") =>
          /\ start = (pre.start + Count(pre)) % size
          /\ end = pre.end

\* overwrite has wrapped both cursors of a full buffer of capacity 3 from
\* the last slot to slot 0
C14_Witness ==
    /\ op = "overwrite" /\ IsFull(pre)
    /\ size = 3 /\ pre.start = 2 /\ start = 0 /\ end = 0
\* ---- C15 ----
\* C15: (end - start) mod N = count mod N; so start = end exactly when the
\* buffer is empty or full, and then the slot at start is occupied when it
\* is full and empty when it is empty.
C15_CursorDistanceIsCount ==
    /\ (end - start + size) % size = Count(Buf) % size
    /\ (start = end) <=> (IsEmpty(Buf) \/ IsFull(Buf))
    /\ (start = end) =>
          /\ is_some(data[start]) <=> IsFull(Buf)
          /\ is_none(data[start]) <=> IsEmpty(Buf)

\* a full buffer of capacity 3 whose cursors coincide off slot 0, after a
\* successful write
C15_Witness ==
    /\ op = "write" /\ res = "Ok"
    /\ size = 3 /\ start = 1 /\ end = 1
    /\ IsFull(Buf)
\* ---- C16 ----
Class(b) ==
    IF Count(b) = 0 THEN "Empty"
    ELSE IF Count(b) = b.size THEN "Full"
    ELSE "Partial"

WriteMoves == {<<"Empty", "Partial">>, <<"Partial", "Partial">>, <<"Partial", "Full">>}
ReadMoves == {<<"Partial", "Partial">>, <<"Partial", "Empty">>, <<"Full", "Partial">>}

\* C16 as stated: for every capacity N >= 1, a successful write takes the
\* buffer Empty to Partial, Partial to Partial or Partial to Full and write
\* fails only in Full; a successful read takes it Partial to Partial,
\* Partial to Empty or Full to Partial and read fails only in Empty.
C16_ClassMovesAsStated ==
    /\ (op = "write" /\ res = "Ok") => <<Class(pre), Class(Buf)>> \in WriteMoves
    /\ (op = "write" /\ res # "Ok") => (res = "FullBuffer" /\ Class(pre) = "Full")
    /\ (op = "read" /\ res = "Ok") => <<Class(pre), Class(Buf)>> \in ReadMoves
    /\ (op = "read" /\ res # "Ok") => (res = "EmptyBuffer" /\ Class(pre) = "Empty")

\* C16 as amended: the same for every capacity N >= 2; a buffer of capacity
\* 1 has no Partial state, so a successful write takes it Empty to Full and
\* a successful read takes it Full to Empty.  For every N >= 1 write fails
\* only in Full and read fails only in Empty.
C16_ClassMoves ==
    /\ (op = "write" /\ res = "Ok") =>
          <<Class(pre), Class(Buf)>> \in
              (IF size = 1 THEN {<<"Empty", "Full">>} ELSE WriteMoves)
    /\ (op = "write" /\ res # "Ok") => (res = "FullBuffer" /\ Class(pre) = "Full")
    /\ (op = "read" /\ res = "Ok") =>
          <<Class(pre), Class(Buf)>> \in
              (IF size = 1 THEN {<<"Full", "Empty">>} ELSE ReadMoves)
    /\ (op = "read" /\ res # "Ok") => (res = "EmptyBuffer" /\ Class(pre) = "Empty")

\* a successful write has filled an empty buffer of capacity 1
C16_Witness ==
    /\ op = "write" /\ res = "Ok" /\ size = 1
    /\ Class(pre) = "Empty" /\ Class(Buf) = "Full"
\* ---- C17 ----
\* C17: a successful write(e) finds the slot at the old end empty and leaves
\* e in it, changes no other slot, sets end to (end + 1) mod size, raises
\* the count by exactly 1 and leaves start unchanged.
C17_WriteFrame ==
    (op = "write" /\ res = "Ok") =>
        /\ is_none(pre.data[pre.end])
        /\ data = [pre.data EXCEPT ![pre.end] = Some(arg)]
        /\ {i \in DOMAIN data : data[i] # pre.data[i]} = {pre.end}
        /\ end = (pre.end + 1) % pre.size
        /\ Count(Buf) = Count(pre) + 1
        /\ start = pre.start

\* a successful write into the last slot of a buffer of capacity 3 that
\* holds an element, wrapping end to 0
C17_Witness ==
    /\ op = "write" /\ res = "Ok"
    /\ size = 3 /\ pre.end = 2 /\ end = 0
    /\ pre.start = 1 /\ Count(pre) = 1
\* ---- C18 ----
\* C18: a successful read() returns the element of the slot at the old
\* start, which was occupied, leaves that slot empty, sets start to
\* (start + 1) mod size, lowers the count by exactly 1 and leaves end and
\* every other slot unchanged; and a slot that is empty becomes occupied
\* only by a write or an overwrite storing its argument there, so a slot
\* that a read vacated is not returned again before such a store.
C18_ReadFrame ==
    [][ /\ (op' = "read" /\ res' = "Ok") =>
              /\ is_some(data[start])
              /\ val' = data[start]
              /\ data' = [data EXCEPT ![start] = None]
              /\ start' = (start + 1) % size
              /\ Count(Buf)' = Count(Buf) - 1
              /\ end' = end
        /\ \A i \in DOMAIN data :
              (is_none(data[i]) /\ is_some(data'[i])) =>
                  /\ op' \in {"write", "overwrite"}
                  /\ res' \in {"Ok", "Unit"}
                  /\ data'[i] = Some(arg')
      ]_vars

\* the third successful read on a buffer of capacity 2: slot 0 is read a
\* second time, after the third write stored into it
C18_Witness ==
    /\ onlyWR /\ op = "read" /\ res = "Ok"
    /\ size = 2 /\ nread = 3 /\ pre.start = 0
    /\ val = writes[3]
\* ---- C19 ----
\* C19: the loop of clear() on a buffer holding count elements makes
\* exactly count reads that succeed and then one read that returns
\* EmptyBuffer, at most N + 1 reads in all, and clear() returns.
C19_ClearTerminates ==
    (op = "clear") =>
        LET t == clear_trace(pre)
            n == Count(pre)
        IN  /\ res = "Unit"
            /\ Len(t) = n + 1
            /\ Len(t) <= size + 1
            /\ \A i \in 1..n : t[i] = "Ok"
            /\ t[n + 1] = "EmptyBuffer"

\* clear of a full buffer of capacity 4 whose oldest element is in slot 2:
\* five reads
C19_Witness ==
    /\ op = "clear" /\ IsFull(pre)
    /\ size = 4 /\ pre.start = 2
    /\ Len(clear_trace(pre)) = 5
\* ---- C20 ----
\* b after write(e) calls repeated until one fails
RECURSIVE Fill(_, _)
Fill(b, e) ==
    LET w == write(b, e)
    IN  IF w.res = "Ok" THEN Fill(w.buf, e) ELSE b

\* b after read() calls repeated until one fails
RECURSIVE Drain(_)
Drain(b) ==
    LET r == read(b)
    IN  IF r.res = "Ok" THEN Drain(r.buf) ELSE b

\* C20: in every reachable state of a buffer of capacity N >= 1 a write or
\* a read succeeds; a write succeeds at once or after one read, and a read
\* succeeds at once or after one write; and writes alone fill the buffer
\* and reads alone then drain it, from where it can be filled again.
C20_NoTerminalState ==
    \A e \in Elems :
        /\ write(Buf, e).res = "Ok" \/ read(Buf).res = "Ok"
        /\ write(Buf, e).res = "Ok" \/ write(read(Buf).buf, e).res = "Ok"
        /\ read(Buf).res = "Ok" \/ read(write(Buf, e).buf).res = "Ok"
        /\ IsFull(Fill(Buf, e))
        /\ IsEmpty(Drain(Fill(Buf, e)))
        /\ IsFull(Fill(Drain(Fill(Buf, e)), e))

\* a buffer of capacity 2 that is full again after four successful writes
\* and two successful reads, where the next write has failed
C20_Witness ==
    /\ onlyWR /\ size = 2
    /\ Len(writes) = 4 /\ nread = 2
    /\ IsFull(Buf)
    /\ op = "write" /\ res = "FullBuffer"
====
